---- MODULE Spec2Model ----
(***************************************************************************)
(* Model of scripts/lz77_gen_vectors.py: the LZ77 encoder (compress), the  *)
(* golden-model decoder (decompress_stream) and the token packer           *)
(* (write_mem_files.pack_token_word).                                      *)
(*                                                                         *)
(* Python indices are 0-based; TLA+ sequences are 1-based, so data[x] of   *)
(* the source is written data[x + 1] here.                                 *)
(***************************************************************************)
EXTENDS Integers, Sequences, FiniteSets, TLC

\* ---------------------------------------------------------------- bounds
MaxData == 5            \* longest input of compress in Spec
MaxWindow == 3          \* window_size ranges over 1..MaxWindow in Spec
MaxMatch == 2           \* max_length ranges over 1..MaxMatch in Spec
NumBytes == 2           \* number of distinct byte values used as data
MaxTokens == 3          \* longest hand-made token list given to the decoder
MaxDist == 3            \* largest distance in a hand-made token
MaxCopy == 2            \* largest length in a hand-made token
MaxWidth == 4           \* dist_width, len_width range over 0..MaxWidth
MaxRunData == 18        \* longest input of compress in SpecDefault

\* ------------------------------------------------------ program constants
DefaultWindow == 16
DefaultMaxLength == 15
DefaultDistWidth == 4
DefaultLenWidth == 4
DefaultTokenW == 16

Bytes == 65..(65 + NumBytes - 1)

NoValue == <<-1>>       \* "the function has not returned a value"

VARIABLES
    data, window_size, max_length,      \* arguments of compress
    i, tokens,                          \* compress: position, token list
    fromCompress,                       \* TRUE iff tokens is compress's result
    out_full, hist,                     \* decompress_stream: output, window
    t,                                  \* index of the token being processed
    start, k,                           \* copy loop: start index, counter
    dist_width, len_width, token_w,     \* arguments of write_mem_files
    words,                              \* token words written so far
    pc, err, returned

cvars == <<data, window_size, max_length, i, tokens, fromCompress>>
dvars == <<out_full, hist, start, k>>
pvars == <<dist_width, len_width, token_w, words>>
vars == <<data, window_size, max_length, i, tokens, fromCompress,
          out_full, hist, t, start, k,
          dist_width, len_width, token_w, words, pc, err, returned>>

\* ----------------------------------------------------------------- helpers
Max(a, b) == IF a >= b THEN a ELSE b

RECURSIVE Pow2(_)
Pow2(n) == IF n = 0 THEN 1 ELSE 2 * Pow2(n - 1)

SeqsUpTo(S, n) == UNION {[1..m -> S] : m \in 0..n}

\* ---------------------------------------------------------------- compress
\* the condition of the inner while loop that extends a match
ExtendsNoMaxLength(d, ii, j, ml, m) ==
    /\ ii + m < Len(d)
    /\ j + m < ii
    /\ d[j + m + 1] = d[ii + m + 1]

ExtendsOverlapping(d, ii, j, ml, m) ==
    /\ ii + m < Len(d)
    /\ m < ml
    /\ d[j + m + 1] = d[ii + m + 1]

Extends(d, ii, j, ml, m) ==
    /\ ii + m < Len(d)
    /\ j + m < ii
    /\ m < ml
    /\ d[j + m + 1] = d[ii + m + 1]

RECURSIVE MatchFrom(_, _, _, _, _)
MatchFrom(d, ii, j, ml, m) ==
    IF Extends(d, ii, j, ml, m) THEN MatchFrom(d, ii, j, ml, m + 1) ELSE m

\* match_len of candidate start j at position ii
MatchLen(d, ii, j, ml) == MatchFrom(d, ii, j, ml, 0)

\* the test that makes a candidate the best so far
AcceptLastFound(match_len, best_len, ii, n) ==
    match_len > 0 /\ match_len >= best_len /\ (ii + match_len) < n

Accept(match_len, best_len, ii, n) ==
    match_len > best_len /\ (ii + match_len) < n

\* the for loop over j; best = <<best_len, best_dist>>
RECURSIVE Scan(_, _, _, _, _, _)
Scan(d, ii, w, ml, j, best) ==
    IF j >= ii THEN best
    ELSE LET dist == ii - j
             match_len == MatchLen(d, ii, j, ml)
         IN IF dist <= 0 \/ dist > w
            THEN Scan(d, ii, w, ml, j + 1, best)
            ELSE IF Accept(match_len, best[1], ii, Len(d))
                 THEN Scan(d, ii, w, ml, j + 1, <<match_len, dist>>)
                 ELSE Scan(d, ii, w, ml, j + 1, best)

BestMatch(d, ii, w, ml) == Scan(d, ii, w, ml, Max(0, ii - w), <<0, 0>>)

\* the token (distance, length, literal) emitted at position ii
TokenAt(d, ii, w, ml) ==
    LET best == BestMatch(d, ii, w, ml)
    IN IF best[1] > 0
       THEN <<best[2], best[1], d[ii + best[1] + 1]>>
       ELSE <<0, 0, d[ii + 1]>>

\* one iteration of "while i < n"
CompressStep ==
    /\ pc = "compress"
    /\ i < Len(data)
    /\ LET tok == TokenAt(data, i, window_size, max_length)
       IN /\ tokens' = Append(tokens, tok)
          /\ i' = i + tok[2] + 1
    /\ UNCHANGED <<data, window_size, max_length, fromCompress, t,
                   dvars, pvars, pc, err, returned>>

\* compress returns and its tokens are handed to decompress_stream
CallDecompress ==
    /\ pc = "compress"
    /\ i >= Len(data)
    /\ pc' = "token"
    /\ t' = 1
    /\ out_full' = <<>>
    /\ hist' = <<>>
    /\ UNCHANGED <<cvars, start, k, pvars, err, returned>>

\* ------------------------------------------------------- decompress_stream
\* hist[-window_size:] applied when len(hist) > window_size
Truncate(h, w) ==
    IF Len(h) > w THEN SubSeq(h, Len(h) - w + 1, Len(h)) ELSE h

\* hist.append(b) followed by the truncation inside the copy loop
CopyAppendUntruncated(h, b, w) == Append(h, b)

CopyAppend(h, b, w) == Truncate(Append(h, b), w)

\* the two checks made before a copy; "none" when the token passes
BackRefErrorNoZeroCheck(distance, h) ==
    IF distance > Len(h) THEN "Invalid back-reference" ELSE "none"

BackRefError(distance, h) ==
    IF distance = 0 THEN "Invalid token: distance=0 with length>0"
    ELSE IF distance > Len(h) THEN "Invalid back-reference"
    ELSE "none"

\* Python list indexing hist[idx]: negative indices count from the end,
\* anything outside the list raises IndexError
InRange(h, idx) == idx < Len(h) /\ idx >= 0 - Len(h)
ReadHist(h, idx) == IF idx >= 0 THEN h[idx + 1] ELSE h[Len(h) + idx + 1]

Cur == tokens[t]
Distance == Cur[1]
Length == Cur[2]
Literal == Cur[3]

\* a token with length == 0
DecodeLiteral ==
    /\ pc = "token"
    /\ t <= Len(tokens)
    /\ Length = 0
    /\ out_full' = Append(out_full, Literal)
    /\ hist' = Truncate(Append(hist, Literal), window_size)
    /\ t' = t + 1
    /\ UNCHANGED <<cvars, start, k, pvars, pc, err, returned>>

\* a token with length > 0 that fails a check: ValueError
DecodeRaise ==
    /\ pc = "token"
    /\ t <= Len(tokens)
    /\ Length # 0
    /\ BackRefError(Distance, hist) # "none"
    /\ pc' = "raised"
    /\ err' = "ValueError"
    /\ UNCHANGED <<cvars, dvars, t, pvars, returned>>

\* a token with length > 0 that passes the checks: start is computed
DecodeBeginCopy ==
    /\ pc = "token"
    /\ t <= Len(tokens)
    /\ Length # 0
    /\ BackRefError(Distance, hist) = "none"
    /\ start' = Len(hist) - Distance
    /\ k' = 0
    /\ pc' = "copy"
    /\ UNCHANGED <<cvars, out_full, hist, t, pvars, err, returned>>

\* one iteration of "for k in range(length)"
DecodeCopyByte ==
    /\ pc = "copy"
    /\ k < Length
    /\ InRange(hist, start + k)
    /\ LET b == ReadHist(hist, start + k)
       IN /\ out_full' = Append(out_full, b)
          /\ hist' = CopyAppend(hist, b, window_size)
    /\ k' = k + 1
    /\ UNCHANGED <<cvars, t, start, pvars, pc, err, returned>>

\* hist[start + k] is outside the list: IndexError
DecodeIndexError ==
    /\ pc = "copy"
    /\ k < Length
    /\ ~InRange(hist, start + k)
    /\ pc' = "raised"
    /\ err' = "IndexError"
    /\ UNCHANGED <<cvars, dvars, t, pvars, returned>>

\* the literal after the copy loop, and the truncation that ends the token
DecodeTrailingLiteral ==
    /\ pc = "copy"
    /\ k >= Length
    /\ out_full' = Append(out_full, Literal)
    /\ hist' = Truncate(Append(hist, Literal), window_size)
    /\ t' = t + 1
    /\ pc' = "token"
    /\ UNCHANGED <<cvars, start, k, pvars, err, returned>>

\* return bytes(out_full)
DecodeReturn ==
    /\ pc = "token"
    /\ t > Len(tokens)
    /\ returned' = out_full
    /\ pc' = "returned"
    /\ UNCHANGED <<cvars, dvars, t, pvars, err>>

\* -------------------------------------------------------------------- Spec
Token == (0..MaxDist) \X (0..MaxCopy) \X Bytes

InitCommon ==
    /\ i = 0
    /\ out_full = <<>>
    /\ hist = <<>>
    /\ t = 1
    /\ start = 0
    /\ k = 0
    /\ words = <<>>
    /\ err = "none"
    /\ returned = NoValue

\* compress(data, window_size, max_length) followed by decompress_stream
InitCompress ==
    /\ data \in SeqsUpTo(Bytes, MaxData)
    /\ window_size \in 1..MaxWindow
    /\ max_length \in 1..MaxMatch
    /\ tokens = <<>>
    /\ fromCompress = TRUE
    /\ pc = "compress"

\* decompress_stream(tokens, window_size) on any token list
InitDecompress ==
    /\ data = <<>>
    /\ window_size \in 1..MaxWindow
    /\ max_length = 1
    /\ tokens \in SeqsUpTo(Token, MaxTokens)
    /\ fromCompress = FALSE
    /\ pc = "token"

Init ==
    /\ InitCommon
    /\ dist_width = DefaultDistWidth
    /\ len_width = DefaultLenWidth
    /\ token_w = DefaultTokenW
    /\ InitCompress \/ InitDecompress

Next ==
    \/ CompressStep
    \/ CallDecompress
    \/ DecodeLiteral
    \/ DecodeRaise
    \/ DecodeBeginCopy
    \/ DecodeCopyByte
    \/ DecodeIndexError
    \/ DecodeTrailingLiteral
    \/ DecodeReturn

Spec == Init /\ [][Next]_vars

\* --------------------------------------------------------- write_mem_files
\* Python's a | b on non-negative integers
RECURSIVE BitOr(_, _)
BitOr(a, b) ==
    IF a = 0 THEN b
    ELSE IF b = 0 THEN a
    ELSE 2 * BitOr(a \div 2, b \div 2) + Max(a % 2, b % 2)

\* a << n
Shl(a, n) == a * Pow2(n)

NoWord == -1
Raised == [raised |-> TRUE, word |-> NoWord]

\* pack_token_word, closed over dist_width, len_width and token_w
PackNoLengthCheck(dist, length, lit, dw, lw, tw) ==
    IF dist >= Shl(1, dw) THEN Raised
    ELSE IF lit < 0 \/ lit > 255 THEN Raised
    ELSE [raised |-> FALSE,
          word |-> BitOr(BitOr(Shl(dist, lw + 8), Shl(length, 8)), lit)
                      % Shl(1, tw)]

PackShortShift(dist, length, lit, dw, lw, tw) ==
    IF dist >= Shl(1, dw) THEN Raised
    ELSE IF length >= Shl(1, lw) THEN Raised
    ELSE IF lit < 0 \/ lit > 255 THEN Raised
    ELSE [raised |-> FALSE,
          word |-> BitOr(BitOr(Shl(dist, lw), Shl(length, 8)), lit)
                      % Shl(1, tw)]

pack_token_word(dist, length, lit, dw, lw, tw) ==
    IF dist >= Shl(1, dw) THEN Raised
    ELSE IF length >= Shl(1, lw) THEN Raised
    ELSE IF lit < 0 \/ lit > 255 THEN Raised
    ELSE [raised |-> FALSE,
          word |-> BitOr(BitOr(Shl(dist, lw + 8), Shl(length, 8)), lit)
                      % Shl(1, tw)]

Packed ==
    pack_token_word(Cur[1], Cur[2], Cur[3], dist_width, len_width, token_w)

\* compress returns and its tokens are handed to write_mem_files
CallWriteMemFiles ==
    /\ pc = "compress"
    /\ i >= Len(data)
    /\ pc' = "write"
    /\ t' = 1
    /\ words' = <<>>
    /\ UNCHANGED <<cvars, dvars, dist_width, len_width, token_w,
                   err, returned>>

\* one iteration of the tokens.mem loop: the token packs
WriteToken ==
    /\ pc = "write"
    /\ t <= Len(tokens)
    /\ ~Packed.raised
    /\ words' = Append(words, Packed.word)
    /\ t' = t + 1
    /\ UNCHANGED <<cvars, dvars, dist_width, len_width, token_w,
                   pc, err, returned>>

\* one iteration of the tokens.mem loop: pack_token_word raises ValueError
WriteRaise ==
    /\ pc = "write"
    /\ t <= Len(tokens)
    /\ Packed.raised
    /\ pc' = "raised"
    /\ err' = "ValueError"
    /\ UNCHANGED <<cvars, dvars, t, pvars, returned>>

\* every token has been written
WriteDone ==
    /\ pc = "write"
    /\ t > Len(tokens)
    /\ pc' = "written"
    /\ UNCHANGED <<cvars, dvars, t, pvars, err, returned>>

\* ---------------------------------------------------------------- SpecPack
\* write_mem_files on a one-token list, for any widths and field values
LitValues == {-1, 0, 65, 255, 256}

InitPack ==
    /\ InitCommon
    /\ data = <<>>
    /\ window_size = 1
    /\ max_length = 1
    /\ fromCompress = FALSE
    /\ dist_width \in 0..MaxWidth
    /\ len_width \in 0..MaxWidth
    /\ token_w \in {DefaultTokenW, dist_width + len_width + 8}
    /\ tokens \in {<<tok>> :
                     tok \in (0..Pow2(MaxWidth)) \X (0..Pow2(MaxWidth))
                                \X LitValues}
    /\ pc = "write"

NextPack ==
    \/ WriteToken
    \/ WriteRaise
    \/ WriteDone

SpecPack == InitPack /\ [][NextPack]_vars

\* ------------------------------------------------------------- SpecDefault
\* compress with its default window_size and max_length, then
\* write_mem_files with its default widths, on inputs made of three runs
Rep(x, n) == [q \in 1..n |-> x]

RunData ==
    {Rep(x[1], x[4]) \o Rep(x[2], x[5]) \o Rep(x[3], x[6]) :
        x \in {y \in Bytes \X Bytes \X Bytes
                       \X (0..MaxRunData) \X (0..MaxRunData) \X (0..MaxRunData) :
                  y[4] + y[5] + y[6] <= MaxRunData}}

InitDefault ==
    /\ InitCommon
    /\ data \in RunData
    /\ window_size = DefaultWindow
    /\ max_length = DefaultMaxLength
    /\ tokens = <<>>
    /\ fromCompress = TRUE
    /\ dist_width = DefaultDistWidth
    /\ len_width = DefaultLenWidth
    /\ token_w = DefaultTokenW
    /\ pc = "compress"

NextDefault ==
    \/ CompressStep
    \/ CallWriteMemFiles
    \/ WriteToken
    \/ WriteRaise
    \/ WriteDone

SpecDefault == InitDefault /\ [][NextDefault]_vars

\* ------------------------------------------------------------ properties
\* position in data at which compress emitted toks[m]:
\* the sum of (length + 1) over the tokens before it
RECURSIVE TokenPos(_, _)
TokenPos(toks, m) ==
    IF m <= 1 THEN 0 ELSE TokenPos(toks, m - 1) + toks[m - 1][2] + 1

CompressReturned == fromCompress /\ pc # "compress"
DecodeEnded == pc \in {"returned", "raised"}

\* C1: decompress_stream(compress(data, window_size, max_length),
\* window_size) returns without error and returns exactly data.
RoundTrip ==
    (fromCompress /\ DecodeEnded) => (pc = "returned" /\ returned = data)

\* C2: for tokens that pass the distance checks, the copy loop never fails,
\* and every byte it has appended equals the output byte `distance`
\* positions before it (overlapping copies and a full history included).
CopySemantics ==
    /\ err # "IndexError"
    /\ pc = "copy" =>
         \A m \in 1..k :
            out_full[Len(out_full) - k + m]
               = out_full[Len(out_full) - k + m - Distance]

\* C3: after every append to the history (literal token, each byte of the
\* copy loop, trailing literal) the history holds at most window_size bytes.
HistoryBound == Len(hist) <= window_size

HistoryBoundWitness ==
    /\ pc = "copy"
    /\ k > 0
    /\ Len(hist) = window_size
    /\ Len(out_full) > window_size

\* C4: a token with length > 0 whose distance is 0 or exceeds the current
\* history length ends the decode with an error at that token: nothing is
\* returned, nothing is output for it, and no later token is processed.
InvalidBackRef ==
    /\ pc = "token"
    /\ t <= Len(tokens)
    /\ Length > 0
    /\ (Distance = 0 \/ Distance > Len(hist))

RejectsInvalid ==
    /\ [](pc = "raised" => returned = NoValue)
    /\ [][/\ InvalidBackRef =>
                /\ pc' = "raised"
                /\ err' = "ValueError"
                /\ returned' = NoValue
                /\ t' = t
                /\ out_full' = out_full
          /\ pc = "raised" => UNCHANGED vars]_vars

RejectsInvalidWitness ==
    /\ pc = "raised"
    /\ err = "ValueError"
    /\ Cur = <<3, 2, 65>>
    /\ Len(hist) = 2

\* C5: every token of compress has distance = 0 iff length = 0,
\* 0 <= distance <= window_size, 0 <= length <= max_length and a literal
\* in 0..255.
ValidToken(tok, w, ml) ==
    /\ (tok[1] = 0) <=> (tok[2] = 0)
    /\ 0 <= tok[1] /\ tok[1] <= w
    /\ 0 <= tok[2] /\ tok[2] <= ml
    /\ 0 <= tok[3] /\ tok[3] <= 255

TokenValidity ==
    fromCompress =>
        \A m \in 1..Len(tokens) : ValidToken(tokens[m], window_size, max_length)

TokenValidityWitness ==
    /\ CompressReturned
    /\ \E m \in 1..Len(tokens) : tokens[m][2] = max_length /\ max_length > 1
    /\ \E m \in 1..Len(tokens) : tokens[m][1] = window_size
    /\ \E m \in 1..Len(tokens) : tokens[m][2] = 0

\* candidate starts j at position p whose match is acceptable (a byte
\* follows it) and as long as len
TiedCandidates(p, len) ==
    {j \in Max(0, p - window_size)..(p - 1) :
        /\ MatchLen(data, p, j, max_length) = len
        /\ p + len < Len(data)}

\* C8 as stated: among candidates with the emitted match length, the
\* emitted distance is the smallest.
SmallestDistanceWins ==
    fromCompress =>
        \A m \in 1..Len(tokens) :
            tokens[m][2] > 0 =>
                \A j \in TiedCandidates(TokenPos(tokens, m), tokens[m][2]) :
                    tokens[m][1] <= TokenPos(tokens, m) - j

\* C8 amended: among candidates with the emitted match length, the emitted
\* distance is the largest (the first candidate found, scanning j upwards).
LargestDistanceWins ==
    fromCompress =>
        \A m \in 1..Len(tokens) :
            tokens[m][2] > 0 =>
                \A j \in TiedCandidates(TokenPos(tokens, m), tokens[m][2]) :
                    tokens[m][1] >= TokenPos(tokens, m) - j

LargestDistanceWinsWitness ==
    /\ CompressReturned
    /\ \E m \in 1..Len(tokens) :
          /\ tokens[m][2] > 0
          /\ Cardinality(TiedCandidates(TokenPos(tokens, m), tokens[m][2])) > 1

\* C10: the tokens tile data left to right: the lengths + 1 sum to the
\* position reached (len(data) on return); each token's source lies before
\* its position, equals the bytes it stands for, and its literal is the
\* byte after the match.
TilesToken(m) ==
    LET p == TokenPos(tokens, m)
        d == tokens[m][1]
        l == tokens[m][2]
    IN /\ l <= d
       /\ d <= p
       /\ p + l < Len(data)
       /\ \A q \in 0..(l - 1) : data[p - d + q + 1] = data[p + q + 1]
       /\ tokens[m][3] = data[p + l + 1]

Tiling ==
    fromCompress =>
        /\ i = TokenPos(tokens, Len(tokens) + 1)
        /\ i <= Len(data)
        /\ pc # "compress" => i = Len(data)
        /\ \A m \in 1..Len(tokens) : TilesToken(m)

TilingWitness ==
    /\ CompressReturned
    /\ Len(data) = MaxData
    /\ i = Len(data)
    /\ \E m \in 1..Len(tokens) : tokens[m][2] = tokens[m][1] /\ tokens[m][2] > 1
    /\ \E m \in 1..Len(tokens) : tokens[m][2] = 0

\* a field of tok does not fit: the cases in which pack must raise
Overflows(tok) ==
    \/ tok[1] >= Pow2(dist_width)
    \/ tok[2] >= Pow2(len_width)
    \/ tok[3] < 0
    \/ tok[3] > 255

DerivedTokenW == token_w = dist_width + len_width + 8

\* C6: with token_w = dist_width + len_width + 8, the word of an in-range
\* token is distance * 2^(len_width + 8) + length * 2^8 + literal, fits
\* token_w bits, and its top dist_width bits, next len_width bits and low
\* 8 bits are the token's distance, length and literal; (1, 2, 0x41) with
\* widths 4 and 4 packs to 0x1241.
PackUnpack ==
    DerivedTokenW =>
        \A m \in 1..Len(words) :
            LET tok == tokens[m]
                w == words[m]
            IN /\ w = tok[1] * Pow2(len_width + 8) + tok[2] * 256 + tok[3]
               /\ 0 <= w /\ w < Pow2(token_w)
               /\ (w \div Pow2(len_width + 8)) % Pow2(dist_width) = tok[1]
               /\ (w \div 256) % Pow2(len_width) = tok[2]
               /\ w % 256 = tok[3]
               /\ (tok = <<1, 2, 65>> /\ dist_width = 4 /\ len_width = 4)
                     => w = 4673

PackUnpackWitness ==
    /\ pc = "written"
    /\ DerivedTokenW
    /\ dist_width = 4
    /\ len_width = 4
    /\ tokens = << <<1, 2, 65>> >>
    /\ words = <<4673>>

\* C7: pack raises, and writes no word, whenever distance >= 2^dist_width,
\* length >= 2^len_width or literal is outside 0..255; no word is ever
\* produced from such a token.
OverflowRejected ==
    /\ [](\A m \in 1..Len(words) : ~Overflows(tokens[m]))
    /\ [][(pc = "write" /\ t <= Len(tokens) /\ Overflows(Cur)) =>
             /\ pc' = "raised"
             /\ err' = "ValueError"
             /\ words' = words]_vars

OverflowRejectedWitness ==
    /\ pc = "raised"
    /\ err = "ValueError"
    /\ words = <<>>
    /\ Cur[1] < Pow2(dist_width)
    /\ Cur[2] >= Pow2(len_width)
    /\ Cur[3] \in 0..255

\* C9: with the default window_size, max_length, dist_width and len_width,
\* every token of compress is accepted by pack: writing never raises.
DefaultsAgree == fromCompress => pc # "raised"

====
